---- MODULE Spec2Model ----
(***************************************************************************)
(* The E1.33 DeviceManager (tools/e133/DeviceManager.cpp): one DeviceState *)
(* per device IP, the TCP connector that drives connection attempts, the   *)
(* promotion to designated controller on the first inbound frame, and the  *)
(* single teardown path SocketClosed.                                      *)
(*                                                                         *)
(* Every handler runs to completion on the select-server thread, so each   *)
(* handler is one action.  A handler that calls another handler (for       *)
(* instance ReceiveTCPData -> RLPDataReceived -> SocketClosed) is composed *)
(* from operators over a record of the manager's state.                    *)
(***************************************************************************)
EXTENDS Integers, Sequences, FiniteSets, TLC

\* The device IPs that the host and the network can name.
Addrs == {1, 2}

\* Bounds of the model.
MaxSockets == 2          \* TCPSocket objects that can be alive at once
MaxFrames == 2           \* inbound frames followed on one session
MaxQueue == 1            \* frames waiting in one MessageQueue
MaxFailedAttempts == 4   \* consecutive failed connects that are counted
MaxSequence == 1         \* E1.33 sequence numbers 0..MaxSequence

\* Program constants.
ROOT_E133_ENDPOINT == 0
INITIAL_TCP_RETRY_DELAY == 5
MAX_TCP_RETRY_DELAY == 30

\* An auto_ptr is a sequence of length at most one: NULL or <<object>>.
NULL == <<>>
Ptr(obj) == <<obj>>
Get(p) == p[1]

VARIABLES
  m_device_map,          \* ip -> DeviceState, for the registered ips
  m_connector,           \* ip -> the connector's ConnectionInfo
  m_ss,                  \* sockets registered for read-readiness
  sockets,               \* socket id -> peer ip, 0 when no such object lives
  m_rdm_callback,        \* TRUE when a callback is registered
  m_acquire_device_cb_,
  m_release_device_cb_,
  frames,                \* ip -> frames received on the current session
  devices,               \* the vector filled by the last ListManagedDevices
  event,                 \* the handler that produced this state
  calls,                 \* the calls that handler made, in order
  crashed                \* the process died on a NULL/freed dereference

vars == <<m_device_map, m_connector, m_ss, sockets, m_rdm_callback,
          m_acquire_device_cb_, m_release_device_cb_, frames, devices,
          event, calls, crashed>>

----------------------------------------------------------------------------
\* DeviceState, as built by its constructor.
DeviceState ==
  [socket |-> NULL,
   message_queue |-> NULL,
   health_checked_connection |-> NULL,
   in_transport |-> NULL,
   am_designated_controller |-> FALSE]

\* A call made by a handler: to a callback, the connector, the select
\* server, or a constructor / method of an owned object.
Call(fn, ip, arg) == [fn |-> fn, ip |-> ip, arg |-> arg]

Event(op, ip, pdu) == [op |-> op, ip |-> ip, pdu |-> pdu]

RECURSIVE Count(_, _, _)
Count(cs, fn, ip) ==
  IF cs = <<>> THEN 0
  ELSE (IF Head(cs).fn = fn /\ Head(cs).ip = ip THEN 1 ELSE 0)
       + Count(Tail(cs), fn, ip)

Min(x, y) == IF x < y THEN x ELSE y

RECURSIVE Pow2(_)
Pow2(n) == IF n = 0 THEN 1 ELSE 2 * Pow2(n - 1)

----------------------------------------------------------------------------
\* The connector (ola::network::AdvancedTCPConnector) and its backoff policy.

ConnectionInfo(state, failed) == [state |-> state, failed_attempts |-> failed]

\* Delay before the retry that follows the n-th consecutive failure.
BackOffTime(n) ==
  Min(INITIAL_TCP_RETRY_DELAY * Pow2(n - 1), MAX_TCP_RETRY_DELAY)

\* Delay of the retry timer of an endpoint that waits: after the n-th
\* consecutive failure BackOffTime(n); after a Disconnect that keeps the
\* retries, which clears the count, the delay of a first failure.
RetryDelay(info) ==
  BackOffTime(IF info.failed_attempts = 0 THEN 1 ELSE info.failed_attempts)

\* AddEndpoint: a known endpoint is left alone, a new one starts connecting.
AddEndpoint(conn, ip) ==
  IF conn[ip].state # "NONE" THEN conn
  ELSE [conn EXCEPT ![ip] = ConnectionInfo("CONNECTING", 0)]

\* Disconnect(endpoint, pause): only acts on a connected endpoint; with
\* pause the endpoint is parked and no further attempt is scheduled.
Disconnect(conn, ip, pause) ==
  IF conn[ip].state # "CONNECTED" THEN conn
  ELSE [conn EXCEPT ![ip] =
          ConnectionInfo(IF pause THEN "PAUSED" ELSE "WAITING", 0)]

----------------------------------------------------------------------------
\* The manager's state as one record, so that handlers compose.
Begin ==
  [map |-> m_device_map, conn |-> m_connector, ss |-> m_ss,
   sockets |-> sockets, frames |-> frames, calls |-> <<>>,
   crashed |-> FALSE]

Log(st, fn, ip, arg) == [st EXCEPT !.calls = Append(@, Call(fn, ip, arg))]

\* delete of a TCPSocket object: auto_ptr::reset on the owning pointer.
DeleteSocket(socks, p) ==
  IF p = NULL THEN socks ELSE [socks EXCEPT ![Get(p)] = 0]

\* The id of the next TCPSocket object the socket factory builds.
FreeSockets(socks) == {s \in 1..MaxSockets : socks[s] = 0}
NewSocket(socks) ==
  CHOOSE s \in FreeSockets(socks) : \A t \in FreeSockets(socks) : s <= t

----------------------------------------------------------------------------
\* Variant: every close is treated as a lost race.
WasDesignated_Never(ds) == FALSE

\* Variant: every close is treated as the close of a designated session.
WasDesignated_Always(ds) == TRUE

\* SocketClosed: the lost-the-race test that picks the Disconnect variant.
WasDesignated(ds) == ds.am_designated_controller

\* Variant: the health checker is not reset.
ReleaseDeviceState_KeepHealthChecker(ds) ==
  [ds EXCEPT !.message_queue = NULL,
             !.in_transport = NULL,
             !.socket = NULL]

\* Variant: the message queue is not reset.
ReleaseDeviceState_KeepQueue(ds) ==
  [ds EXCEPT !.health_checked_connection = NULL,
             !.in_transport = NULL,
             !.socket = NULL]

\* SocketClosed: the five resets that end the handler.
ReleaseDeviceState(ds) ==
  [ds EXCEPT !.health_checked_connection = NULL,
             !.message_queue = NULL,
             !.in_transport = NULL,
             !.socket = NULL]

\* Variant: the closed device is erased from the map.
SocketClosedMap_Erase(map, ip) ==
  [a \in DOMAIN map \ {ip} |-> map[a]]

\* SocketClosed: what the handler does to the device map.
SocketClosedMap(map, ip) ==
  [map EXCEPT ![ip] =
     ReleaseDeviceState([@ EXCEPT !.am_designated_controller = FALSE])]

\* Variant: the socket pointer is release()d, the object is never deleted.
SocketClosedSockets_Leak(socks, ds) == socks

\* SocketClosed: what the handler does to the live TCPSocket objects.
SocketClosedSockets(socks, ds) == DeleteSocket(socks, ds.socket)

\* Variant: the socket stays registered with the select server.
RemoveReadDescriptor_Skipped(ss, p) == ss

\* SocketClosed: m_ss->RemoveReadDescriptor(device_state->socket.get()).
RemoveReadDescriptor(ss, p) == IF p = NULL THEN ss ELSE ss \ {Get(p)}

SocketClosedSt(st, ip) ==
  IF ip \notin DOMAIN st.map THEN st
  ELSE
    LET ds == st.map[ip]
        designated == WasDesignated(ds)
        st1 == IF designated /\ m_release_device_cb_
                 THEN Log(st, "release_device_cb", ip, 0) ELSE st
        st2 == Log(st1, "Disconnect", ip, IF designated THEN 0 ELSE 1)
        st3 == IF ds.health_checked_connection # NULL
                 THEN Log(st2, "delete_health_checked_connection", ip, 0)
                 ELSE st2
        st4 == IF ds.message_queue # NULL
                 THEN Log(st3, "delete_message_queue", ip, 0) ELSE st3
        st5 == IF ds.in_transport # NULL
                 THEN Log(st4, "delete_in_transport", ip, 0) ELSE st4
        st6 == Log(st5, "RemoveReadDescriptor", ip, 0)
        st7 == IF ds.socket # NULL
                 THEN Log(st6, "delete_socket", ip, 0) ELSE st6
    IN [st7 EXCEPT
          !.map = SocketClosedMap(st.map, ip),
          !.conn = Disconnect(st.conn, ip, ~designated),
          !.ss = RemoveReadDescriptor(@, ds.socket),
          !.sockets = SocketClosedSockets(st.sockets, ds),
          !.frames[ip] = 0]

----------------------------------------------------------------------------
\* Variant: the designated flag is not set.
Promote_NoFlag(ds) ==
  [ds EXCEPT !.message_queue = Ptr([socket |-> ds.socket, msgs |-> <<>>])]

\* Variant: the MessageQueue is not built.
Promote_NoQueue(ds) ==
  [ds EXCEPT !.am_designated_controller = TRUE]

\* RLPDataReceived: the record after the designated flag is set and the
\* MessageQueue is built on the record's socket.
Promote(ds) ==
  [ds EXCEPT !.am_designated_controller = TRUE,
             !.message_queue = Ptr([socket |-> ds.socket, msgs |-> <<>>])]

\* RLPDataReceived: the test that takes the heartbeat-only path.
AlreadyDesignated(ds) == ds.am_designated_controller

\* Variant: the result of Setup is ignored.
SetupFailed_Ignored(setup_ok) == FALSE

\* RLPDataReceived: the test of the result of Setup.
SetupFailed(setup_ok) == ~setup_ok

\* E133HealthCheckedConnection::HeartbeatReceived
HeartbeatReceived(hm) == [hm EXCEPT !.heartbeats = @ + 1]

\* RLPDataReceived for a frame that arrived over TCP from ip.  setup_ok is
\* the result of E133HealthCheckedConnection::Setup; null_deref is what a
\* call through a NULL pointer does in this build.
RLPDataReceivedSt(st, ip, setup_ok, null_deref) ==
  IF ip \notin DOMAIN st.map THEN st
  ELSE
    LET ds == st.map[ip]
        st0 == [st EXCEPT !.frames[ip] = @ + 1]
    IN
    IF AlreadyDesignated(ds) THEN
      IF ds.health_checked_connection = NULL
        THEN [st0 EXCEPT !.crashed = (null_deref = "crash")]
        ELSE [Log(st0, "HeartbeatReceived", ip, 0) EXCEPT
                !.map[ip].health_checked_connection =
                   Ptr(HeartbeatReceived(Get(@)))]
    ELSE
      LET st1 == IF m_acquire_device_cb_
                   THEN Log(st0, "acquire_device_cb", ip, 0) ELSE st0
          st2 == Log(st1, "new_MessageQueue", ip, 0)
          st3 == Log(st2, "new_E133HealthCheckedConnection", ip, 0)
          st4 == Log(st3, "Setup", ip, IF setup_ok THEN 1 ELSE 0)
          st5 == [st4 EXCEPT !.map[ip] = Promote(ds)]
      IN IF SetupFailed(setup_ok)
           THEN SocketClosedSt(st5, ip)
           ELSE [st5 EXCEPT !.map[ip].health_checked_connection =
                              Ptr([heartbeats |-> 0])]

----------------------------------------------------------------------------
\* MessageQueue::SendMessage
SendMessage(mq, sequence, endpoint) ==
  [mq EXCEPT !.msgs = Append(@, [sequence |-> sequence,
                                 endpoint |-> endpoint])]

\* EndpointRequest for a request from ip.  ack is what the RDM message
\* callback returns.  A SendMessage through a NULL message_queue pointer is
\* logged as NULL_SendMessage.
EndpointRequestSt(st, ip, sequence, ack, null_deref) ==
  IF ~m_rdm_callback THEN Log(st, "EndpointRequest", ip, sequence)
  ELSE
    LET st1 == Log(Log(st, "EndpointRequest", ip, sequence),
                   "rdm_callback", ip, IF ack THEN 1 ELSE 0)
    IN
    IF ~ack THEN st1
    ELSE IF ip \notin DOMAIN st1.map THEN st1
    ELSE IF st1.map[ip].message_queue = NULL
      THEN [Log(st1, "NULL_SendMessage", ip, sequence) EXCEPT
              !.crashed = (null_deref = "crash")]
    ELSE [Log(st1, "SendMessage", ip, sequence) EXCEPT
            !.map[ip].message_queue =
               Ptr(SendMessage(Get(@), sequence, ROOT_E133_ENDPOINT))]

----------------------------------------------------------------------------
\* Variant: the new socket is not owned by an auto_ptr and outlives the
\* early return.
UnknownPeer_Leak(st, s) == st

\* OnTCPConnect: the early return for a peer that the map does not hold; the
\* auto_ptr that owns the new socket deletes it.
UnknownPeer(st, s) == [st EXCEPT !.sockets[s] = 0]

\* OnTCPConnect for the new TCPSocket object s.
OnTCPConnectSt(st, s) ==
  LET ip == st.sockets[s]
  IN
  IF ip \notin DOMAIN st.map
    THEN UnknownPeer(st, s)
  ELSE
    LET ds == st.map[ip]
        st0 == IF ds.socket # NULL
                 THEN Log(st, "delete_socket", ip, 0) ELSE st
        st1 == Log(IF ds.in_transport # NULL
                     THEN Log(st0, "delete_in_transport", ip, 0) ELSE st0,
                   "SetOnData", ip, s)
        st2 == Log(st1, "SetOnClose", ip, s)
        st3 == Log(st2, "AddReadDescriptor", ip, s)
    IN [st3 EXCEPT
          !.sockets = DeleteSocket(@, ds.socket),
          !.map[ip].socket = Ptr(s),
          !.map[ip].in_transport = Ptr(s),
          !.ss = @ \cup {s},
          !.frames[ip] = 0]

----------------------------------------------------------------------------
\* Variant: every device with a socket is listed.
IsManaged_Connected(ds) == ds.socket # NULL

\* ListManagedDevices: the test that selects a device.
IsManaged(ds) == ds.am_designated_controller

\* ListManagedDevices: the loop over the map, in key order.
RECURSIVE ListManagedDevicesFrom(_, _, _)
ListManagedDevicesFrom(map, keys, devs) ==
  IF keys = {} THEN devs
  ELSE LET k == CHOOSE x \in keys : \A y \in keys : x <= y
       IN ListManagedDevicesFrom(
            map, keys \ {k},
            IF IsManaged(map[k]) THEN Append(devs, k) ELSE devs)

----------------------------------------------------------------------------
\* The state after the constructor and the three Set...Callback calls of
\* the host's start-up; a callback that was not set stays NULL.
Init ==
  /\ m_device_map = [ip \in {} |-> DeviceState]
  /\ m_connector = [ip \in Addrs |-> ConnectionInfo("NONE", 0)]
  /\ m_ss = {}
  /\ sockets = [s \in 1..MaxSockets |-> 0]
  /\ m_rdm_callback \in BOOLEAN
  /\ m_acquire_device_cb_ \in BOOLEAN
  /\ m_release_device_cb_ \in BOOLEAN
  /\ frames = [ip \in Addrs |-> 0]
  /\ devices = <<>>
  /\ event = Event("DeviceManager", 0, "none")
  /\ calls = <<>>
  /\ crashed = FALSE

Callbacks == <<m_rdm_callback, m_acquire_device_cb_, m_release_device_cb_>>

\* Install the state a handler ended in.
Commit(st, ev) ==
  /\ m_device_map' = st.map
  /\ m_connector' = st.conn
  /\ m_ss' = st.ss
  /\ sockets' = st.sockets
  /\ frames' = st.frames
  /\ calls' = st.calls
  /\ crashed' = st.crashed
  /\ event' = ev
  /\ devices' = <<>>
  /\ UNCHANGED Callbacks

\* Variant: no test for a device that is already in the map.
AddDevice_NoContainsTest(ip) ==
  /\ ~crashed
  /\ Commit([Log(Begin, "AddEndpoint", ip, 0) EXCEPT
               !.map = (ip :> DeviceState) @@ m_device_map,
               !.conn = AddEndpoint(m_connector, ip)],
            Event("AddDevice", ip, "none"))

AddDevice(ip) ==
  /\ ~crashed
  /\ IF ip \in DOMAIN m_device_map
       THEN Commit(Begin, Event("AddDevice", ip, "none"))
       ELSE Commit([Log(Begin, "AddEndpoint", ip, 0) EXCEPT
                      !.map = (ip :> DeviceState) @@ m_device_map,
                      !.conn = AddEndpoint(m_connector, ip)],
                   Event("AddDevice", ip, "none"))

RemoveDevice(ip) ==
  /\ ~crashed
  /\ Commit(Begin, Event("RemoveDevice", ip, "none"))

RemoveDeviceIfNotConnected(ip) ==
  /\ ~crashed
  /\ Commit(Begin, Event("RemoveDeviceIfNotConnected", ip, "none"))

ListManagedDevices ==
  /\ ~crashed
  /\ devices' = ListManagedDevicesFrom(m_device_map, DOMAIN m_device_map,
                                       <<>>)
  /\ event' = Event("ListManagedDevices", 0, "none")
  /\ calls' = <<>>
  /\ UNCHANGED <<m_device_map, m_connector, m_ss, sockets, frames, crashed,
                 Callbacks>>

\* A connection attempt of the connector completes: the connector marks the
\* endpoint connected with a clean attempt count, the socket factory builds
\* the TCPSocket and runs OnTCPConnect.  The peer is an endpoint that
\* is connecting, or an ip that the registry does not hold.
OnTCPConnect(ip) ==
  /\ ~crashed
  /\ \/ m_connector[ip].state = "CONNECTING"
     \/ ip \notin DOMAIN m_device_map
  /\ FreeSockets(sockets) # {}
  /\ LET s == NewSocket(sockets)
         st == [Begin EXCEPT
                  !.sockets[s] = ip,
                  !.conn[ip] =
                     IF @.state = "CONNECTING"
                       THEN ConnectionInfo("CONNECTED", 0) ELSE @]
     IN Commit(OnTCPConnectSt(st, s), Event("OnTCPConnect", ip, "none"))

\* A connection attempt fails or times out: the connector counts it and
\* arms the retry timer.
ConnectFailed(ip) ==
  /\ ~crashed
  /\ m_connector[ip].state = "CONNECTING"
  /\ m_connector[ip].failed_attempts < MaxFailedAttempts
  /\ Commit([Begin EXCEPT
               !.conn[ip] = ConnectionInfo("WAITING",
                                           @.failed_attempts + 1)],
            Event("ConnectFailed", ip, "none"))

\* The retry timer fires: the connector starts the next attempt.
RetryTimeout(ip) ==
  /\ ~crashed
  /\ m_connector[ip].state = "WAITING"
  /\ Commit([Begin EXCEPT !.conn[ip].state = "CONNECTING"],
            Event("RetryTimeout", ip, "none"))

\* What a call through a NULL pointer, and what running on inside a deleted
\* IncomingTCPTransport, can do in a build.
NullDerefOutcomes == {"crash", "skip"}
UseAfterFreeOutcomes == {"crash", "continue"}

\* What IncomingTCPTransport::Receive can decode from the bytes that are
\* ready: no complete PDU, a PDU that only reaches the root inflator, or an
\* RDM request for the root endpoint.
PDUs == {"none", "rlp", "rdm"}

\* The IncomingTCPTransport that is running Receive was deleted under it.
TransportDeleted(st, ip) ==
  \/ ip \notin DOMAIN st.map
  \/ st.map[ip].in_transport = NULL

\* Frames waiting in the MessageQueue of ip.
QueueLen(st, ip) ==
  IF ip \notin DOMAIN st.map \/ st.map[ip].message_queue = NULL
    THEN 0
    ELSE Len(Get(st.map[ip].message_queue).msgs)

\* The socket's on-data callback.  Receive hands a decoded PDU to
\* RLPDataReceived and then, for an RDM request, to EndpointRequest; its
\* result good tells whether the stream is still sane.
ReceiveTCPData(ip, pdu, good) ==
  /\ ~crashed
  /\ ip \in DOMAIN m_device_map
  /\ m_device_map[ip].socket # NULL
  /\ m_device_map[ip].in_transport # NULL
  /\ Get(m_device_map[ip].socket) \in m_ss
  /\ pdu # "none" => frames[ip] < MaxFrames
  /\ \E st0 \in {Begin} :
     \E st1 \in {IF pdu # "none"
                   THEN RLPDataReceivedSt(st0, ip, setup_ok, null_deref)
                   ELSE st0 :
                 setup_ok \in BOOLEAN, null_deref \in NullDerefOutcomes} :
     \E st2 \in {IF ~st1.crashed /\ TransportDeleted(st1, ip)
                   THEN [st1 EXCEPT !.crashed = (use_after_free = "crash")]
                   ELSE st1 :
                 use_after_free \in UseAfterFreeOutcomes} :
     \E st3 \in {IF ~st2.crashed /\ pdu = "rdm"
                   THEN EndpointRequestSt(st2, ip, sequence, ack, null_deref)
                   ELSE st2 :
                 sequence \in 0..MaxSequence, ack \in BOOLEAN,
                 null_deref \in NullDerefOutcomes} :
     \E st4 \in {IF ~st3.crashed /\ ~good
                   THEN SocketClosedSt(st3, ip)
                   ELSE st3} :
        /\ QueueLen(st4, ip) <= MaxQueue
        /\ Commit(st4, Event("ReceiveTCPData", ip, pdu))

\* The inflators deliver a TCP frame whose transport header names a source ip
\* that the registry does not hold.
RLPDataReceived(ip, pdu) ==
  /\ ~crashed
  /\ ip \notin DOMAIN m_device_map
  /\ pdu # "none"
  /\ \E st0 \in {Begin} :
     \E st1 \in {RLPDataReceivedSt(st0, ip, setup_ok, null_deref) :
                 setup_ok \in BOOLEAN, null_deref \in NullDerefOutcomes} :
     \E st2 \in {IF ~st1.crashed /\ pdu = "rdm"
                   THEN EndpointRequestSt(st1, ip, sequence, ack, null_deref)
                   ELSE st1 :
                 sequence \in 0..MaxSequence, ack \in BOOLEAN,
                 null_deref \in NullDerefOutcomes} :
        Commit(st2, Event("RLPDataReceived", ip, pdu))

\* The health checker's unhealthy callback.
SocketUnhealthy(ip) ==
  /\ ~crashed
  /\ ip \in DOMAIN m_device_map
  /\ m_device_map[ip].health_checked_connection # NULL
  /\ Commit(SocketClosedSt(Begin, ip), Event("SocketUnhealthy", ip, "none"))

\* The socket's on-close callback: the remote end closed the connection.
\* Also the close of a socket whose peer the registry does not hold.
SocketClosed(ip) ==
  /\ ~crashed
  /\ \/ ip \notin DOMAIN m_device_map
     \/ /\ ip \in DOMAIN m_device_map
        /\ m_device_map[ip].socket # NULL
        /\ Get(m_device_map[ip].socket) \in m_ss
  /\ Commit(SocketClosedSt(Begin, ip), Event("SocketClosed", ip, "none"))

\* The MessageQueue writes its oldest frame to the socket.
MessageQueueWrite(ip) ==
  /\ ~crashed
  /\ ip \in DOMAIN m_device_map
  /\ m_device_map[ip].message_queue # NULL
  /\ Get(m_device_map[ip].message_queue).msgs # <<>>
  /\ Commit([Begin EXCEPT
               !.map[ip].message_queue =
                  Ptr([Get(@) EXCEPT !.msgs = Tail(@)])],
            Event("MessageQueueWrite", ip, "none"))

Next ==
  \/ \E ip \in Addrs : AddDevice(ip)
  \/ \E ip \in Addrs : RemoveDevice(ip)
  \/ \E ip \in Addrs : RemoveDeviceIfNotConnected(ip)
  \/ ListManagedDevices
  \/ \E ip \in Addrs : OnTCPConnect(ip)
  \/ \E ip \in Addrs : ConnectFailed(ip)
  \/ \E ip \in Addrs : RetryTimeout(ip)
  \/ \E ip \in Addrs, pdu \in PDUs, good \in BOOLEAN :
       ReceiveTCPData(ip, pdu, good)
  \/ \E ip \in Addrs, pdu \in PDUs : RLPDataReceived(ip, pdu)
  \/ \E ip \in Addrs : SocketUnhealthy(ip)
  \/ \E ip \in Addrs : SocketClosed(ip)
  \/ \E ip \in Addrs : MessageQueueWrite(ip)

Spec == Init /\ [][Next]_vars

\* The connector's retry timer is a select-server timeout: once armed it
\* fires.
FairSpec == Spec /\ \A ip \in Addrs : WF_vars(RetryTimeout(ip))

TypeOK ==
  /\ DOMAIN m_device_map \subseteq Addrs
  /\ \A ip \in DOMAIN m_device_map :
       /\ m_device_map[ip].am_designated_controller \in BOOLEAN
       /\ Len(m_device_map[ip].socket) <= 1
  /\ \A ip \in Addrs :
       m_connector[ip].state \in
         {"NONE", "CONNECTING", "WAITING", "CONNECTED", "PAUSED"}
  /\ m_ss \subseteq 1..MaxSockets
  /\ crashed \in BOOLEAN

----------------------------------------------------------------------------
\* Vocabulary of the properties.

Registered(ip) == ip \in DOMAIN m_device_map
HasSession(ip) == Registered(ip) /\ m_device_map[ip].socket # NULL
Designated(ip) == Registered(ip) /\ m_device_map[ip].am_designated_controller

\* The TCPSocket objects that are alive and connected to ip.
LiveSockets(ip) == {s \in 1..MaxSockets : sockets[s] = ip}

\* This step is the handling of an inbound frame from ip.
FrameStep(ip) ==
  /\ event'.op = "ReceiveTCPData"
  /\ event'.ip = ip
  /\ event'.pdu # "none"

\* This step closes the session of ip.
CloseStep(ip) ==
  /\ HasSession(ip)
  /\ Registered(ip)'
  /\ m_device_map'[ip].socket = NULL

\* The session of ip has just been closed and the process is running.
JustClosed(ip) ==
  /\ ~crashed
  /\ Registered(ip)
  /\ ~HasSession(ip)
  /\ event.ip = ip
  /\ event.op \in {"SocketClosed", "SocketUnhealthy", "ReceiveTCPData"}

Range(f) == {f[i] : i \in DOMAIN f}

----------------------------------------------------------------------------
\* C1: the registry never holds two live sessions for one address.  The
\* live TCPSocket objects connected to an address are exactly the socket
\* its record owns, so there is at most one, and none survives outside the
\* record after a connect, an inbound frame, a timeout or a close.
C1_OneSessionPerEndpoint ==
  \A ip \in Addrs :
    /\ Cardinality(LiveSockets(ip)) <= 1
    /\ LiveSockets(ip) =
         IF HasSession(ip) THEN {Get(m_device_map[ip].socket)} ELSE {}

\* A connection has just been established for one address while the other
\* address holds a session of its own.
C1_Witness ==
  \E ip \in Addrs, other \in Addrs :
    /\ ip # other
    /\ event = Event("OnTCPConnect", ip, "none")
    /\ HasSession(ip) /\ HasSession(other)
    /\ LiveSockets(ip) = {Get(m_device_map[ip].socket)}

\* C2: promotion happens exactly once per session.  A session with no frame
\* yet is not designated and has no queue and no health checker; the acquire
\* callback runs once on the first frame and in no other step; a later frame
\* runs HeartbeatReceived once and builds neither a MessageQueue nor an
\* E133HealthCheckedConnection.
C2_PromotionOnce ==
  [][\A ip \in Addrs :
       /\ (HasSession(ip) /\ frames[ip] = 0) =>
            /\ ~Designated(ip)
            /\ m_device_map[ip].message_queue = NULL
            /\ m_device_map[ip].health_checked_connection = NULL
       /\ (FrameStep(ip) /\ frames[ip] = 0) =>
            Count(calls', "acquire_device_cb", ip) =
              IF m_acquire_device_cb_ THEN 1 ELSE 0
       /\ (FrameStep(ip) /\ frames[ip] >= 1) =>
            /\ Count(calls', "acquire_device_cb", ip) = 0
            /\ Count(calls', "new_MessageQueue", ip) = 0
            /\ Count(calls', "new_E133HealthCheckedConnection", ip) = 0
            /\ Count(calls', "HeartbeatReceived", ip) = 1
       /\ ~FrameStep(ip) => Count(calls', "acquire_device_cb", ip) = 0
    ]_vars

\* The second frame of a session, with the acquire callback registered.
C2_Witness ==
  \E ip \in Addrs :
    /\ m_acquire_device_cb_
    /\ event.op = "ReceiveTCPData" /\ event.ip = ip /\ event.pdu # "none"
    /\ frames[ip] = 2
    /\ Designated(ip)
    /\ Count(calls, "HeartbeatReceived", ip) = 1

\* C3: a heartbeat timeout tears the session down.  SocketUnhealthy runs on a
\* designated record; after it the record is not designated, the release
\* callback (when one is registered) ran exactly once with that address, the
\* health checker, queue, transport and socket are gone, and with the health
\* checker deleted its unhealthy callback cannot run again.
C3_HeartbeatTimeoutTeardown ==
  [][\A ip \in Addrs :
       (event'.op = "SocketUnhealthy" /\ event'.ip = ip) =>
         /\ Designated(ip)
         /\ Registered(ip)'
         /\ ~Designated(ip)'
         /\ Len(SelectSeq(calls', LAMBDA c : c.fn = "release_device_cb")) =
              IF m_release_device_cb_ THEN 1 ELSE 0
         /\ Count(calls', "release_device_cb", ip) =
              IF m_release_device_cb_ THEN 1 ELSE 0
         /\ m_device_map'[ip] = DeviceState
         /\ LiveSockets(ip)' = {}
         /\ Get(m_device_map[ip].socket) \notin m_ss'
    ]_vars

\* The state after a heartbeat timeout, with the release callback registered.
C3_Witness ==
  \E ip \in Addrs :
    /\ m_release_device_cb_
    /\ event = Event("SocketUnhealthy", ip, "none")
    /\ Count(calls, "release_device_cb", ip) = 1
    /\ ~HasSession(ip)

\* The record of ip is designated when SocketClosed runs in this step: it
\* was designated before the step, or the step promoted it.
DesignatedAtClose(ip) ==
  \/ Designated(ip)
  \/ Count(calls', "Setup", ip) = 1

\* C4 as stated: after every session close of a registered endpoint, whether
\* or not it was designated, the connector eventually makes a new connection
\* attempt to that address.
C4_RetriedAfterEveryClose ==
  \A ip \in Addrs :
    [](JustClosed(ip) =>
         <>(m_connector[ip].state = "CONNECTING" \/ crashed))

\* C4, amended: a closed endpoint stays registered.  When the record is
\* designated as SocketClosed runs, the connector keeps its retries and a new
\* connection attempt is eventually made while the process runs; when it is
\* not designated (it lost the race), the connector is told to pause the
\* endpoint and no new attempt is made.
C4_RetriedAfterDesignatedClose ==
  /\ [][\A ip \in Addrs :
          /\ (CloseStep(ip) /\ DesignatedAtClose(ip)) =>
               m_connector'[ip].state = "WAITING"
          /\ (CloseStep(ip) /\ ~DesignatedAtClose(ip)) =>
               m_connector'[ip].state = "PAUSED"
          /\ m_connector[ip].state = "PAUSED" =>
               m_connector'[ip].state = "PAUSED"
       ]_vars
  /\ \A ip \in Addrs :
       []((JustClosed(ip) /\ m_connector[ip].state = "WAITING") =>
            <>(m_connector[ip].state = "CONNECTING" \/ crashed))

\* A designated session was closed and the connector is connecting again.
C4_Witness ==
  \E ip \in Addrs :
    /\ event = Event("RetryTimeout", ip, "none")
    /\ m_connector[ip] = ConnectionInfo("CONNECTING", 0)
    /\ Registered(ip)
    /\ ~HasSession(ip)

\* C5 as stated: after RemoveDevice the address is not registered, no session
\* for it is open and the connector has no attempt pending for it.
C5_RemoveDeviceErases ==
  \A ip \in Addrs :
    event = Event("RemoveDevice", ip, "none") =>
      /\ ~Registered(ip)
      /\ LiveSockets(ip) = {}
      /\ m_connector[ip].state \notin {"CONNECTING", "WAITING", "CONNECTED"}

\* C6: a registered address stays registered through every step that is not
\* a remove request.
C6_NoImplicitRemoval ==
  [][\A ip \in Addrs :
       (Registered(ip) /\
        event'.op \notin {"RemoveDevice", "RemoveDeviceIfNotConnected"}) =>
         Registered(ip)'
    ]_vars

\* A registered address right after its session was closed.
C6_Witness ==
  \E ip \in Addrs :
    /\ event = Event("SocketClosed", ip, "none")
    /\ Registered(ip)
    /\ Count(calls, "Disconnect", ip) = 1

\* C7: AddDevice of a registered address changes nothing in any record state
\* and makes no call to the connector; AddDevice of an unregistered address
\* adds a fresh record (no session, not designated), leaves the other records
\* alone and calls AddEndpoint exactly once.
C7_AddDeviceIdempotent ==
  [][\A ip \in Addrs :
       (event'.op = "AddDevice" /\ event'.ip = ip) =>
         IF Registered(ip)
           THEN /\ m_device_map' = m_device_map
                /\ m_connector' = m_connector
                /\ sockets' = sockets
                /\ m_ss' = m_ss
                /\ calls' = <<>>
           ELSE /\ DOMAIN m_device_map' = DOMAIN m_device_map \cup {ip}
                /\ m_device_map'[ip] = DeviceState
                /\ \A other \in DOMAIN m_device_map :
                     m_device_map'[other] = m_device_map[other]
                /\ calls' = <<Call("AddEndpoint", ip, 0)>>
                /\ m_connector'[ip] = ConnectionInfo("CONNECTING", 0)
    ]_vars

\* AddDevice has just run for an address whose record is designated.
C7_Witness ==
  \E ip \in Addrs :
    /\ event = Event("AddDevice", ip, "none")
    /\ Designated(ip)
    /\ HasSession(ip)
    /\ calls = <<>>

\* C8: ListManagedDevices fills the vector with exactly the registered
\* addresses whose designated flag is true, each once, and changes nothing.
C8_ListManagedDevices ==
  [][event'.op = "ListManagedDevices" =>
       /\ Range(devices') = {ip \in Addrs : Designated(ip)}
       /\ Len(devices') = Cardinality(Range(devices'))
       /\ UNCHANGED <<m_device_map, m_connector, m_ss, sockets>>
    ]_vars

\* A listing made while one address is designated and another is connected
\* but not yet confirmed.
C8_Witness ==
  \E ip \in Addrs, other \in Addrs :
    /\ event.op = "ListManagedDevices"
    /\ devices = <<ip>>
    /\ HasSession(other)
    /\ ~Designated(other)

\* C9: a queue, a health checker or a transport exists only in a record that
\* holds a socket, and the designated flag is true only in such a record.
C9_SubObjectsNeedSession ==
  \A ip \in DOMAIN m_device_map :
    m_device_map[ip].socket = NULL =>
      /\ m_device_map[ip].message_queue = NULL
      /\ m_device_map[ip].health_checked_connection = NULL
      /\ m_device_map[ip].in_transport = NULL
      /\ ~m_device_map[ip].am_designated_controller

\* A record that was designated and has just been closed.
C9_Witness ==
  \E ip \in Addrs :
    /\ event = Event("SocketClosed", ip, "none")
    /\ Registered(ip)
    /\ m_device_map[ip] = DeviceState
    /\ Count(calls, "delete_message_queue", ip) = 1

\* C10 as stated: the queue exists if and only if the record has a session.
C10_QueueIffSession ==
  \A ip \in DOMAIN m_device_map :
    m_device_map[ip].message_queue # NULL <=> m_device_map[ip].socket # NULL

\* C10, amended: the queue exists if and only if the record is designated,
\* and then the record has a session and the queue is bound to its socket; a
\* session that is connected but not confirmed has no queue.
C10_QueueIffDesignated ==
  \A ip \in DOMAIN m_device_map :
    /\ m_device_map[ip].message_queue # NULL <=>
         m_device_map[ip].am_designated_controller
    /\ m_device_map[ip].message_queue # NULL =>
         /\ m_device_map[ip].socket # NULL
         /\ Get(m_device_map[ip].message_queue).socket =
              m_device_map[ip].socket

\* One address has a session and no queue, the other is designated with a
\* queue.
C10_Witness ==
  \E ip \in Addrs, other \in Addrs :
    /\ HasSession(ip)
    /\ m_device_map[ip].message_queue = NULL
    /\ Designated(other)
    /\ m_device_map[other].message_queue # NULL

\* C11: between events a record has a health checker if and only if its
\* designated flag is true.
C11_HealthCheckerIffDesignated ==
  \A ip \in DOMAIN m_device_map :
    m_device_map[ip].health_checked_connection # NULL <=>
      m_device_map[ip].am_designated_controller

\* One address was promoted by the frame just handled and has a health
\* checker, the other has a session and neither flag nor health checker.
C11_Witness ==
  \E ip \in Addrs, other \in Addrs :
    /\ event.op = "ReceiveTCPData" /\ event.ip = ip
    /\ Count(calls, "Setup", ip) = 1
    /\ Designated(ip)
    /\ m_device_map[ip].health_checked_connection # NULL
    /\ HasSession(other)
    /\ ~Designated(other)
    /\ m_device_map[other].health_checked_connection = NULL

\* This step handles a session event for an ip that the registry does not
\* hold: a connection, an inbound frame, or a close.
UnknownAddressStep(ip) ==
  /\ ~Registered(ip)
  /\ event'.ip = ip
  /\ event'.op \in {"OnTCPConnect", "RLPDataReceived", "SocketClosed"}

\* The calls of cs that are made to fn, for any ip.
CallsTo(cs, fn) == SelectSeq(cs, LAMBDA c : c.fn = fn)

\* C12: a session event for an unregistered address aborts only that
\* operation: no record is created or changed, no socket object and no read
\* descriptor is left behind, neither the acquire nor the release callback
\* runs, the connector is not asked to Disconnect and its state is untouched,
\* and the process keeps running.
C12_UnknownAddressAborts ==
  [][\A ip \in Addrs :
       UnknownAddressStep(ip) =>
         /\ m_device_map' = m_device_map
         /\ m_connector' = m_connector
         /\ sockets' = sockets
         /\ m_ss' = m_ss
         /\ CallsTo(calls', "acquire_device_cb") = <<>>
         /\ CallsTo(calls', "release_device_cb") = <<>>
         /\ CallsTo(calls', "Disconnect") = <<>>
         /\ CallsTo(calls', "AddEndpoint") = <<>>
         /\ ~crashed'
    ]_vars

\* A connection for an unregistered address was just handled while the other
\* address keeps its designated session.
C12_Witness ==
  \E ip \in Addrs, other \in Addrs :
    /\ event = Event("OnTCPConnect", ip, "none")
    /\ ~Registered(ip)
    /\ LiveSockets(ip) = {}
    /\ Designated(other)
    /\ HasSession(other)

\* C13: over consecutive failed attempts the retry delay starts at the floor
\* of 5 s, never decreases and never exceeds the ceiling of 30 s; a
\* designated record's endpoint has a clean failure count, and when its
\* session closes the retry timer is armed with the floor delay.
C13_BackoffMonotoneBounded ==
  [][\A ip \in Addrs :
       /\ (event'.op = "ConnectFailed" /\ event'.ip = ip) =>
            /\ m_connector'[ip].state = "WAITING"
            /\ RetryDelay(m_connector'[ip]) >= INITIAL_TCP_RETRY_DELAY
            /\ RetryDelay(m_connector'[ip]) <= MAX_TCP_RETRY_DELAY
            /\ m_connector[ip].failed_attempts = 0 =>
                 RetryDelay(m_connector'[ip]) = INITIAL_TCP_RETRY_DELAY
            /\ m_connector[ip].failed_attempts >= 1 =>
                 RetryDelay(m_connector'[ip]) >= RetryDelay(m_connector[ip])
       /\ Designated(ip) => m_connector[ip] = ConnectionInfo("CONNECTED", 0)
       /\ (CloseStep(ip) /\ DesignatedAtClose(ip)) =>
            /\ m_connector'[ip].state = "WAITING"
            /\ RetryDelay(m_connector'[ip]) = INITIAL_TCP_RETRY_DELAY
    ]_vars

\* The fourth consecutive failure: doubling would give 40 s, the timer is
\* armed with the ceiling.
C13_Witness ==
  \E ip \in Addrs :
    /\ event = Event("ConnectFailed", ip, "none")
    /\ m_connector[ip].failed_attempts = 4
    /\ INITIAL_TCP_RETRY_DELAY * Pow2(3) > MAX_TCP_RETRY_DELAY
    /\ RetryDelay(m_connector[ip]) = MAX_TCP_RETRY_DELAY

\* This step decodes an RDM request from ip and hands it to EndpointRequest.
RequestStep(ip) ==
  /\ event'.op \in {"ReceiveTCPData", "RLPDataReceived"}
  /\ event'.ip = ip
  /\ event'.pdu = "rdm"
  /\ Count(calls', "EndpointRequest", ip) = 1

\* The acknowledgement rule of EndpointRequest for the request of this step;
\* acked_sends is the number of frames that an acknowledged request of a
\* registered source must put on the source's queue.
AckRule(ip, acked_sends) ==
  LET request == CallsTo(calls', "EndpointRequest")[1]
      asked == CallsTo(calls', "rdm_callback")
      sent == CallsTo(calls', "SendMessage")
  IN
  /\ ~m_rdm_callback => (asked = <<>> /\ sent = <<>>)
  /\ m_rdm_callback => Len(asked) = 1
  /\ (asked # <<>> /\ asked[1].arg = 0) => sent = <<>>
  /\ (asked # <<>> /\ asked[1].arg = 1 /\ ~Registered(ip)) => sent = <<>>
  /\ (asked # <<>> /\ asked[1].arg = 1 /\ Registered(ip)) =>
       Len(sent) = acked_sends
  /\ \A i \in DOMAIN sent :
       /\ sent[i].ip = ip
       /\ sent[i].arg = request.arg
  /\ (sent # <<>> /\ HasSession(ip)') =>
       LET msgs == Get(m_device_map'[ip].message_queue).msgs
       IN /\ msgs # <<>>
          /\ msgs[Len(msgs)] = [sequence |-> request.arg,
                                endpoint |-> ROOT_E133_ENDPOINT]
          /\ Len(msgs) = 1 + (IF m_device_map[ip].message_queue = NULL
                                THEN 0
                                ELSE Len(Get(m_device_map[ip].message_queue)
                                           .msgs))
  /\ \A other \in DOMAIN m_device_map :
       other # ip => m_device_map'[other] = m_device_map[other]
  /\ (Designated(ip) /\ CallsTo(calls', "Disconnect") = <<>>) =>
       /\ m_device_map'[ip].socket = m_device_map[ip].socket
       /\ m_device_map'[ip].in_transport = m_device_map[ip].in_transport
       /\ m_device_map'[ip].am_designated_controller

\* C14 as stated: without a handler, or when the handler returns false,
\* nothing is enqueued; otherwise exactly one acknowledgement with the
\* request's sequence number and the root endpoint is put on the queue of the
\* source's record and on no other queue; no other record changes, and the
\* request does not change the session or the designated flag.
C14_AckRule ==
  [][\A ip \in Addrs : RequestStep(ip) => AckRule(ip, 1)]_vars

\* The pause arguments of the Disconnect calls made for ip, in order.
DisconnectArgs(cs, ip) ==
  LET dis == SelectSeq(cs, LAMBDA c : c.fn = "Disconnect" /\ c.ip = ip)
  IN [i \in DOMAIN dis |-> dis[i].arg]

\* C15: what SocketClosed asks of the connector depends only on the
\* designated flag at that moment.  Designated: the flag is cleared, the
\* release callback (when registered) runs once and Disconnect keeps the
\* retries, so the endpoint waits for its retry timer.  Not designated,
\* whatever happened in earlier sessions: no release callback, Disconnect
\* with pause, the endpoint is parked.  A second SocketClosed in the same
\* event finds the flag cleared and asks for pause.
C15_RetryDecision ==
  [][\A ip \in Addrs :
       /\ CloseStep(ip) =>
            LET args == DisconnectArgs(calls', ip)
            IN /\ args # <<>>
               /\ \A i \in DOMAIN args : i > 1 => args[i] = 1
               /\ ~Designated(ip)'
               /\ IF DesignatedAtClose(ip)
                    THEN /\ args[1] = 0
                         /\ Count(calls', "release_device_cb", ip) =
                              IF m_release_device_cb_ THEN 1 ELSE 0
                         /\ m_connector'[ip] = ConnectionInfo("WAITING", 0)
                    ELSE /\ args = <<1>>
                         /\ Count(calls', "release_device_cb", ip) = 0
                         /\ m_connector'[ip].state = "PAUSED"
       /\ (Registered(ip) /\ ~CloseStep(ip)) =>
            /\ DisconnectArgs(calls', ip) = <<>>
            /\ Count(calls', "release_device_cb", ip) = 0
    ]_vars

\* A session that saw no frame was closed: Disconnect with pause, no release
\* callback although one is registered, the endpoint is parked.
C15_Witness ==
  \E ip \in Addrs :
    /\ m_release_device_cb_
    /\ event = Event("SocketClosed", ip, "none")
    /\ Registered(ip)
    /\ DisconnectArgs(calls, ip) = <<1>>
    /\ Count(calls, "release_device_cb", ip) = 0
    /\ m_connector[ip].state = "PAUSED"

\* Setup of the health checker failed for ip in the event that was handled
\* last.
SetupFailedFor(ip) ==
  /\ event.op = "ReceiveTCPData"
  /\ event.ip = ip
  /\ \E i \in DOMAIN calls : calls[i] = Call("Setup", ip, 0)

\* C16: when Setup fails on the first frame the session is closed in the
\* same event: the record is back to a bare DeviceState (no socket, queue,
\* health checker or transport, not designated), its socket object is gone,
\* ListManagedDevices does not return it, and the acquire callback of that
\* frame is followed by the release callback (each runs once when it is
\* registered).
C16_SetupFailureAbandonsPromotion ==
  \A ip \in Addrs :
    SetupFailedFor(ip) =>
      /\ Registered(ip)
      /\ m_device_map[ip] = DeviceState
      /\ LiveSockets(ip) = {}
      /\ ip \notin Range(ListManagedDevicesFrom(m_device_map,
                                                DOMAIN m_device_map, <<>>))
      /\ Count(calls, "acquire_device_cb", ip) =
           IF m_acquire_device_cb_ THEN 1 ELSE 0
      /\ Count(calls, "release_device_cb", ip) =
           IF m_release_device_cb_ THEN 1 ELSE 0
      /\ \A i, j \in DOMAIN calls :
           (calls[i].fn = "acquire_device_cb" /\
            calls[j].fn = "release_device_cb") => i < j

\* Setup failed with both callbacks registered and the process kept running.
C16_Witness ==
  \E ip \in Addrs :
    /\ SetupFailedFor(ip)
    /\ m_acquire_device_cb_ /\ m_release_device_cb_
    /\ Count(calls, "acquire_device_cb", ip) = 1
    /\ Count(calls, "release_device_cb", ip) = 1
    /\ ~crashed

\* The positions in the trace cs of the calls to fn for ip.
Positions(cs, fn, ip) ==
  {i \in DOMAIN cs : cs[i].fn = fn /\ cs[i].ip = ip}

AddressedTo(a, b) ==
  /\ a # b
  /\ event'.ip = a
  /\ event'.op \in {"AddDevice", "OnTCPConnect", "ReceiveTCPData",
                    "RLPDataReceived", "SocketUnhealthy", "SocketClosed"}
  /\ Registered(b)

\* The handler of this step did not touch the record of b and ran no
\* callback for b.
RecordUntouched(b) ==
  /\ Registered(b)'
  /\ m_device_map'[b] = m_device_map[b]
  /\ LiveSockets(b)' = LiveSockets(b)
  /\ Count(calls', "acquire_device_cb", b) = 0
  /\ Count(calls', "release_device_cb", b) = 0

\* C18: every event addressed to a, error paths included, leaves every other
\* registered endpoint b as it was: the record of b is unchanged, no callback
\* runs for b, and the process that holds the session of b is still running.
C18_EndpointsIndependent ==
  [][\A a, b \in Addrs :
       AddressedTo(a, b) => (RecordUntouched(b) /\ ~crashed')]_vars

\* C20 as stated: EndpointRequest never reaches the point of enqueuing an
\* acknowledgement for a record whose message queue is absent, the frame
\* whose promotion failed in Setup included.
C20_AckNeedsQueue ==
  \A ip \in Addrs : Positions(calls, "NULL_SendMessage", ip) = {}

\* The acquire and release callbacks that the trace cs holds for ip, in the
\* order in which they ran.
CallbacksFor(cs, ip) ==
  SelectSeq(cs, LAMBDA c : /\ c.ip = ip
                           /\ c.fn \in {"acquire_device_cb",
                                        "release_device_cb"})

\* C19: with both callbacks registered, the callbacks for an address
\* alternate acquire, release, acquire, ... starting with acquire, and
\* between events the address is owed a release exactly when its designated
\* flag is set.  Stated by induction over the events: no address is
\* designated at start; in every event the callbacks for an address
\* alternate, the first one is a release when the flag was set before the
\* event and an acquire otherwise, and after the event the flag is set
\* exactly when the last callback so far was an acquire.
C19_CallbacksAlternate ==
  [][(m_acquire_device_cb_ /\ m_release_device_cb_) =>
       \A ip \in Addrs :
         LET cbs == CallbacksFor(calls', ip)
         IN /\ \A i \in 1..(Len(cbs) - 1) : cbs[i].fn # cbs[i + 1].fn
            /\ cbs # <<>> =>
                 cbs[1].fn = IF Designated(ip) THEN "release_device_cb"
                                               ELSE "acquire_device_cb"
            /\ Designated(ip)' <=>
                 IF cbs = <<>> THEN Designated(ip)
                 ELSE cbs[Len(cbs)].fn = "acquire_device_cb"
    ]_vars

\* Both callbacks are registered and the last handler acquired an address
\* that is now designated.
C19_Witness ==
  \E ip \in Addrs :
    /\ m_acquire_device_cb_ /\ m_release_device_cb_
    /\ CallbacksFor(calls, ip) = <<Call("acquire_device_cb", ip, 0)>>
    /\ Designated(ip)
    /\ ~crashed

====
